---- MODULE Spec2Model ----
(***************************************************************************)
(* Wallet ledger engine of nswallet: WalletsService (create, fund,         *)
(* withdraw, fundWithPessimisticLock, transfer, delete, executeWithRetry)  *)
(* and TransactionsService (create, getSummary) running against the        *)
(* PostgreSQL tables of the initial migration under READ COMMITTED.        *)
(*                                                                         *)
(* Money is counted in units of the smallest representable amount          *)
(* (DECIMAL(19,4)), so every amount and balance is an integer.             *)
(* A database transaction opened by $transaction is modelled by the row    *)
(* locks it holds (lock), its uncommitted row versions (pendW) and its     *)
(* uncommitted ledger rows (pendTx); they become visible at commit.        *)
(***************************************************************************)
EXTENDS Integers, Naturals, Sequences, FiniteSets, TLC

(***************************************************************************)
(* Bounds of the model                                                     *)
(***************************************************************************)
NumProcs == 2
NumWallets == 2
MaxCalls == 3
MaxAmount == 1
NumFunders == 4

(***************************************************************************)
(* Program constants                                                       *)
(***************************************************************************)
\* Variant: one attempt fewer.
MAX_RETRIES_OneLess == 3 - 1

\* Variant: one more attempt.
MAX_RETRIES_OneMore == 3 + 1

MAX_RETRIES == 3

Procs == 1..NumProcs
Funders == 1..NumFunders
AllProcs == 1..(IF NumProcs > NumFunders THEN NumProcs ELSE NumFunders)
WalletIds == 1..NumWallets
Bogus == NumWallets + 1
NoProc == NumProcs + NumFunders + 1
Users == {"u1", "u2"}
Currencies == {"NGN", "USD"}
WalletName == "main"
Amounts == (0 - 1)..MaxAmount

\* References are pairs <<base, suffix>>; transfer appends -OUT / -IN.
RefBases == {"A", "B", "C"}
NoRef == <<"", "">>
GenRefs == {<<b, "">> : b \in RefBases}
ClientRefs == {<<"A", "">>, <<"A", "-OUT">>}
DtoRefs == ClientRefs \cup {NoRef}

NoRow == [absent |-> TRUE]
NoMeta == [none |-> TRUE]
NoOp == [kind |-> "none", id |-> Bogus, to |-> Bogus, amount |-> 0,
         ref |-> NoRef, user |-> "u1", currency |-> "NGN"]

VARIABLES
    wallets,    \* table wallets: id -> row, NoRow when there is no such row
    used,       \* ids handed out by create so far (ids are never reused)
    ledger,     \* table transactions, committed rows in commit order
    auditLog,   \* table audit_logs, in insertion order
    lock,       \* row lock of each wallets row: holder or NoProc
    pc,         \* position of each request in its handler
    op,         \* the call each request is executing
    attempt,    \* executeWithRetry: loop variable attempt
    conflicts,  \* version-check failures met by the current call
    snap,       \* wallet rows read by findUnique in the current atomic unit
    pendW,      \* uncommitted wallet row versions of the open transaction
    pendTx,     \* uncommitted ledger rows of the open transaction
    curRef,     \* reference chosen for the current atomic unit
    result,     \* outcome of the last call of each request
    wrote,      \* wallet-row mutations committed by the current call
    applied,    \* committed fund/withdraw mutations per client reference
    calls       \* calls started so far

vars == <<wallets, used, ledger, auditLog, lock, pc, op, attempt, conflicts,
          snap, pendW, pendTx, curRef, result, wrote, applied, calls>>

db == <<wallets, used, ledger>>

(***************************************************************************)
(* Storage helpers                                                         *)
(***************************************************************************)
IsRow(r) == r # NoRow

Exists(w) == w \in WalletIds /\ IsRow(wallets[w])

\* findUnique({where: {id}}) outside or at the start of a transaction:
\* READ COMMITTED sees the last committed row; no soft-delete filter is
\* installed (prisma.service.ts onModuleInit).
FindUnique(w) == IF w \in WalletIds THEN wallets[w] ELSE NoRow

\* findUnique inside transaction p: its own uncommitted version wins.
TxFindUnique(p, w) ==
    IF w \in WalletIds /\ IsRow(pendW[p][w]) THEN pendW[p][w] ELSE FindUnique(w)

\* Variant: statements do not wait for row locks.
LockFree_Always(p, w) == TRUE

LockFree(p, w) == w \notin WalletIds \/ lock[w] \in {NoProc, p}

NoPendW == [w \in WalletIds |-> NoRow]

RECURSIVE SumAmounts(_, _, _)
SumAmounts(s, w, t) ==
    IF s = <<>> THEN 0
    ELSE (IF Head(s).walletId = w /\ Head(s).type = t THEN Head(s).amount ELSE 0)
         + SumAmounts(Tail(s), w, t)

CountFor(s, w) == Cardinality({i \in DOMAIN s : s[i].walletId = w})

\* TransactionsService.getSummary: aggregates over the committed ledger.
getSummary(w) ==
    [totalCredits |-> SumAmounts(ledger, w, "CREDIT"),
     totalDebits |-> SumAmounts(ledger, w, "DEBIT"),
     transactionCount |-> CountFor(ledger, w)]

\* Variant: no unique index on transactions.reference.
CommittedRefs_NoIndex == {}

CommittedRefs == {ledger[i].reference : i \in DOMAIN ledger}

OwnPendingRefs(p) == {pendTx[p][i].reference : i \in DOMAIN pendTx[p]}

\* The unique index rejects a reference that a committed row, or a row of the
\* inserting transaction itself, already carries.
RefTaken(p, ref) == ref \in CommittedRefs \/ ref \in OwnPendingRefs(p)

PendingRefsOfOthers(p) ==
    UNION {{pendTx[q][i].reference : i \in DOMAIN pendTx[q]} : q \in AllProcs \ {p}}

\* Variant: the amount of the DTO is not validated.
ValidAmount_Any(a) == TRUE

\* IsPositive of FundWalletDto / WithdrawWalletDto, applied by the global
\* ValidationPipe before the service is entered.
ValidAmount(a) == a > 0

\* Variant: ledger rows record the balance before as the balance after.
Entry_AfterIsBefore(w, t, a, bb, ba, r, m, v) ==
    [walletId |-> w, type |-> t, amount |-> a, balanceBefore |-> bb,
     balanceAfter |-> bb, reference |-> r, metadata |-> m, ver |-> v]

\* Variant: ledger rows written without metadata.
Entry_NoMeta(w, t, a, bb, ba, r, m, v) ==
    [walletId |-> w, type |-> t, amount |-> a, balanceBefore |-> bb,
     balanceAfter |-> ba, reference |-> r, metadata |-> NoMeta, ver |-> v]

Entry(w, t, a, bb, ba, r, m, v) ==
    [walletId |-> w, type |-> t, amount |-> a, balanceBefore |-> bb,
     balanceAfter |-> ba, reference |-> r, metadata |-> m, ver |-> v]

(***************************************************************************)
(* Initial state: the schema of the initial migration, no rows.            *)
(***************************************************************************)
Idle ==
    /\ pc = [p \in AllProcs |-> "idle"]
    /\ op = [p \in AllProcs |-> NoOp]
    /\ attempt = [p \in AllProcs |-> 0]
    /\ conflicts = [p \in AllProcs |-> 0]
    /\ snap = [p \in AllProcs |-> <<NoRow, NoRow>>]
    /\ pendW = [p \in AllProcs |-> NoPendW]
    /\ pendTx = [p \in AllProcs |-> <<>>]
    /\ curRef = [p \in AllProcs |-> NoRef]
    /\ result = [p \in AllProcs |-> "none"]
    /\ wrote = [p \in AllProcs |-> 0]
    /\ applied = [r \in ClientRefs |-> 0]
    /\ lock = [w \in WalletIds |-> NoProc]
    /\ auditLog = <<>>
    /\ ledger = <<>>
    /\ calls = 0

Init ==
    /\ Idle
    /\ wallets = [w \in WalletIds |-> NoRow]
    /\ used = {}

(***************************************************************************)
(* Starting and ending a call                                              *)
(***************************************************************************)
\* What stays of a call once it has returned: its kind and the reference the
\* caller supplied (see result).
Returned(o) == [NoOp EXCEPT !.kind = o.kind, !.ref = o.ref]

\* The transaction callback threw: Prisma rolls the transaction back, which
\* drops its uncommitted rows and releases its row locks.
Rollback(p) ==
    /\ pendW' = [pendW EXCEPT ![p] = NoPendW]
    /\ pendTx' = [pendTx EXCEPT ![p] = <<>>]
    /\ lock' = [w \in WalletIds |-> IF lock[w] = p THEN NoProc ELSE lock[w]]

\* The call returns res to its caller.
Return(p, res) ==
    /\ pc' = [pc EXCEPT ![p] = "idle"]
    /\ result' = [result EXCEPT ![p] = res]
    /\ op' = [op EXCEPT ![p] = Returned(op[p])]
    /\ snap' = [snap EXCEPT ![p] = <<NoRow, NoRow>>]
    /\ curRef' = [curRef EXCEPT ![p] = NoRef]

\* Variant: whatever the callback throws, the call waits and retries.
Fail_Retried(p, err) ==
    /\ Rollback(p)
    /\ pc' = [pc EXCEPT ![p] = "backoff"]
    /\ UNCHANGED <<op, result, snap, curRef>>

\* The call throws err: its open transaction, if any, is rolled back.
Fail(p, err) == Rollback(p) /\ Return(p, err)

\* The call goes on at position at.
Goto(p, at) ==
    /\ pc' = [pc EXCEPT ![p] = at]
    /\ UNCHANGED <<op, result>>

\* A request enters the service with call o and stops at position at.
StartCall(p, o, at) ==
    /\ pc[p] = "idle"
    /\ calls' = calls + 1
    /\ pc' = [pc EXCEPT ![p] = at]
    /\ op' = [op EXCEPT ![p] = o]
    /\ result' = [result EXCEPT ![p] = "pending"]
    /\ attempt' = [attempt EXCEPT ![p] = 1]
    /\ conflicts' = [conflicts EXCEPT ![p] = 0]
    /\ wrote' = [wrote EXCEPT ![p] = 0]
    /\ UNCHANGED <<snap, curRef>>

\* A call that is over within one step, with outcome res.
WholeCall(p, kind, res, n) ==
    /\ pc[p] = "idle"
    /\ calls' = calls + 1
    /\ pc' = pc
    /\ op' = [op EXCEPT ![p] = [NoOp EXCEPT !.kind = kind]]
    /\ result' = [result EXCEPT ![p] = res]
    /\ attempt' = [attempt EXCEPT ![p] = 1]
    /\ conflicts' = [conflicts EXCEPT ![p] = 0]
    /\ wrote' = [wrote EXCEPT ![p] = n]
    /\ UNCHANGED <<snap, curRef>>

\* Ids a caller can name: ids returned by create, or an id of no wallet.
CallIds == used \cup {Bogus}

(***************************************************************************)
(* WalletsService.fund / WalletsService.withdraw (optimistic locking)      *)
(***************************************************************************)
IsOptimistic(p) == op[p].kind \in {"fund", "withdraw"}

\* Variant: the amount is added whatever the operation.
BalanceAfter_Plus(kind, balanceBefore, amount) == balanceBefore + amount

\* balanceBefore.plus(amount) in fund, balanceBefore.minus(amount) in withdraw
BalanceAfter(kind, balanceBefore, amount) ==
    IF kind = "fund" THEN balanceBefore + amount ELSE balanceBefore - amount

\* Variant: withdraw without a sufficiency check.
Insufficient_Never(kind, balanceAfter) == FALSE

\* balanceAfter.lessThan(0), checked by withdraw only
Insufficient(kind, balanceAfter) == kind = "withdraw" /\ balanceAfter < 0

\* Variant: a write leaves the version as it is.
Increment_None(v) == v

\* version: { increment: 1 } in the data of every wallet update.
Increment(v) == v + 1

\* Variant: the update is not guarded by the version read.
VersionMatches_Unguarded(cur, read) == IsRow(cur)

\* where: {id, version: wallet.version} of updateMany: the rows it matches
VersionMatches(cur, read) == IsRow(cur) /\ cur.version = read.version

EntryType(kind) == IF kind = "fund" THEN "CREDIT" ELSE "DEBIT"

\* The request reaches the controller: the ValidationPipe rejects a DTO whose
\* amount is not positive, otherwise the service method is entered.
OptimisticCall(p, kind, ids, amounts, refs) ==
    /\ \E id \in ids, a \in amounts, r \in refs :
         IF ValidAmount(a)
         THEN StartCall(p, [NoOp EXCEPT !.kind = kind, !.id = id,
                                        !.amount = a, !.ref = r], "read")
         ELSE WholeCall(p, kind, "InvalidAmount", 0)
    /\ UNCHANGED <<wallets, used, ledger, auditLog, lock, pendW, pendTx, applied>>

FundCall(p) ==
    calls < MaxCalls /\ OptimisticCall(p, "fund", CallIds, Amounts, DtoRefs)

WithdrawCall(p) ==
    calls < MaxCalls /\ OptimisticCall(p, "withdraw", CallIds, Amounts, DtoRefs)

\* Variant: the delete marker is not looked at.
IsDeleted_Never(row) == FALSE

\* if (wallet.deletedAt)
IsDeleted(row) == row.deletedAt

\* Variant: an attempt after the first one works on the row the previous
\* attempt read.
ReadRow_Kept(p) ==
    IF attempt[p] > 1 /\ IsRow(snap[p][1]) THEN snap[p][1] ELSE FindUnique(op[p].id)

\* tx.wallet.findUnique({ where: { id } }) inside the operation that
\* executeWithRetry runs anew for every attempt.
ReadRow(p) == FindUnique(op[p].id)

\* tx.wallet.findUnique and the checks that follow it
Read(p) ==
    /\ pc[p] = "read"
    /\ LET row == ReadRow(p)
       IN IF ~IsRow(row)
          THEN Fail(p, "NotFound")
          ELSE IF IsDeleted(row)
          THEN Fail(p, "InvalidState")
          ELSE IF Insufficient(op[p].kind,
                               BalanceAfter(op[p].kind, row.balance, op[p].amount))
          THEN Fail(p, "InsufficientFunds")
          ELSE /\ snap' = [snap EXCEPT ![p] = <<row, NoRow>>]
               /\ Goto(p, "update")
               /\ UNCHANGED <<lock, pendW, pendTx, curRef>>
    /\ UNCHANGED <<wallets, used, ledger, auditLog, attempt, conflicts,
                   wrote, applied, calls>>

\* Variant: no error is taken for a version conflict.
IsConflict_Never(err) == FALSE

\* error instanceof ConflictException with 'Concurrent modification' in its
\* message: the error thrown on an update count of 0, and no other.
IsConflict(err) == err = "ConcurrentModification"

\* executeWithRetry's catch: the transaction of the attempt is rolled back; a
\* version conflict is kept for the retry loop, any other error is rethrown
\* to the caller.
Caught(p, err) ==
    IF IsConflict(err)
    THEN /\ Rollback(p)
         /\ Goto(p, "backoff")
         /\ UNCHANGED <<snap, curRef>>
    ELSE Fail(p, err)

\* tx.wallet.updateMany guarded by the version read, and the count check.
\* The statement waits while another transaction holds the row lock and is
\* then evaluated against the row as last committed.  A count of 0 throws
\* the ConflictException that executeWithRetry catches.
Update(p) ==
    /\ pc[p] = "update"
    /\ LockFree(p, op[p].id)
    /\ LET w == op[p].id
           read == snap[p][1]
           cur == FindUnique(w)
       IN IF VersionMatches(cur, read)
          THEN /\ lock' = [lock EXCEPT ![w] = p]
               /\ pendW' = [pendW EXCEPT ![p][w] =
                    [cur EXCEPT !.balance =
                                   BalanceAfter(op[p].kind, read.balance, op[p].amount),
                                !.version = Increment(cur.version)]]
               /\ Goto(p, "insert")
               /\ UNCHANGED <<conflicts, pendTx, snap, curRef>>
          ELSE /\ conflicts' = [conflicts EXCEPT ![p] = @ + 1]
               /\ Caught(p, "ConcurrentModification")
    /\ UNCHANGED <<wallets, used, ledger, auditLog, attempt,
                   wrote, applied, calls>>

\* Math.pow(2, attempt) * 10: the milliseconds waited after a conflict in
\* attempt number attempt.
BackoffDelay(a) == (2 ^ a) * 10

\* executeWithRetry: the catch branch of a ConflictException, the backoff
\* wait, and the loop test; past the loop the terminal ConflictException.
Backoff(p) ==
    /\ pc[p] = "backoff"
    /\ IF attempt[p] < MAX_RETRIES
       THEN /\ attempt' = [attempt EXCEPT ![p] = @ + 1]
            /\ Goto(p, "read")
            /\ UNCHANGED <<snap, curRef, lock, pendW, pendTx>>
       ELSE Fail(p, "HighContention") /\ UNCHANGED attempt
    /\ UNCHANGED <<wallets, used, ledger, auditLog, conflicts, wrote, applied, calls>>

\* Variant: the caller's reference is ignored, one is always generated.
References_Generated(o) == GenRefs

\* dto.reference || generateTransactionReference()
References(o) == IF o.ref # NoRef THEN {o.ref} ELSE GenRefs

\* transactionsService.create under the unique index
\* transactions_reference_key: a committed duplicate fails the insert, an
\* uncommitted one makes it wait for the other transaction to end.
Insert(p) ==
    /\ pc[p] = "insert"
    /\ \E ref \in References(op[p]) :
         LET read == snap[p][1]
         IN /\ ref \notin PendingRefsOfOthers(p)
            /\ IF RefTaken(p, ref)
               THEN Fail(p, "DuplicateReference")
               ELSE /\ pendTx' = [pendTx EXCEPT ![p] = Append(@,
                         Entry(op[p].id, EntryType(op[p].kind), op[p].amount,
                               read.balance,
                               BalanceAfter(op[p].kind, read.balance, op[p].amount),
                               ref, NoMeta, read.version))]
                    /\ curRef' = [curRef EXCEPT ![p] = ref]
                    /\ Goto(p, "commit")
                    /\ UNCHANGED <<pendW, lock, snap>>
    /\ UNCHANGED <<wallets, used, ledger, auditLog, attempt, conflicts,
                   wrote, applied, calls>>

\* Variant: the ledger rows of the transaction are committed, its wallet rows
\* are not.
Committed_LedgerOnly(p) ==
    /\ wallets' = wallets
    /\ ledger' = ledger \o pendTx[p]
    /\ wrote' = [wrote EXCEPT ![p] = @ + Len(pendTx[p])]
    /\ Rollback(p)
    /\ Return(p, "ok")

\* Variant: the wallet rows are committed, the ledger rows are not.
Committed_WalletsOnly(p) ==
    /\ wallets' = [w \in WalletIds |->
                     IF IsRow(pendW[p][w]) THEN pendW[p][w] ELSE wallets[w]]
    /\ ledger' = ledger
    /\ wrote' = [wrote EXCEPT ![p] = @ + Len(pendTx[p])]
    /\ Rollback(p)
    /\ Return(p, "ok")

\* The rows of transaction p become the committed rows, its locks are
\* released and the call returns.
Committed(p) ==
    /\ wallets' = [w \in WalletIds |->
                     IF IsRow(pendW[p][w]) THEN pendW[p][w] ELSE wallets[w]]
    /\ ledger' = ledger \o pendTx[p]
    /\ wrote' = [wrote EXCEPT ![p] = @ + Len(pendTx[p])]
    /\ Rollback(p)
    /\ Return(p, "ok")

\* Variant: the audit event does not carry the reference.
AuditUpdate_NoReference(p) ==
    [action |-> "UPDATE", entityId |-> op[p].id, reference |-> NoRef,
     amount |-> op[p].amount, balanceBefore |-> snap[p][1].balance,
     balanceAfter |-> BalanceAfter(op[p].kind, snap[p][1].balance, op[p].amount)]

AuditUpdate(p) ==
    [action |-> "UPDATE", entityId |-> op[p].id, reference |-> curRef[p],
     amount |-> op[p].amount, balanceBefore |-> snap[p][1].balance,
     balanceAfter |-> BalanceAfter(op[p].kind, snap[p][1].balance, op[p].amount)]

\* The re-read of the wallet, auditService.log (which rethrows when the
\* audit insert fails) and the end of the $transaction callback.
Commit(p) ==
    /\ pc[p] = "commit"
    /\ \E auditOk \in BOOLEAN :
         IF auditOk
         THEN /\ auditLog' = Append(auditLog, AuditUpdate(p))
              /\ Committed(p)
              /\ applied' = IF op[p].ref \in ClientRefs
                            THEN [applied EXCEPT ![op[p].ref] = @ + 1]
                            ELSE applied
         ELSE /\ Fail(p, "AuditError")
              /\ UNCHANGED <<wallets, ledger, auditLog, wrote, applied>>
    /\ UNCHANGED <<used, attempt, conflicts, calls>>

(***************************************************************************)
(* WalletsService.create                                                   *)
(***************************************************************************)
CurrencyInputs == Currencies \cup {"ngn"}

\* Matches(/^[A-Z]{3}$/) of CreateWalletDto.currency
ValidCurrency(c) == c \in Currencies

\* Variant: no unique index on (userId, name, currency).
TripleTaken_Never(u, n, c) == FALSE

\* unique index wallets_userId_name_currency_key, over every row of the table
TripleTaken(u, n, c) ==
    \E w \in WalletIds : /\ IsRow(wallets[w])
                         /\ wallets[w].userId = u
                         /\ wallets[w].name = n
                         /\ wallets[w].currency = c

\* The whole create call is over within one step: user u asked for a wallet
\* of currency c and was answered res.
CreateEnds(p, u, c, res) ==
    /\ pc[p] = "idle"
    /\ calls' = calls + 1
    /\ pc' = pc
    /\ op' = [op EXCEPT ![p] = [NoOp EXCEPT !.kind = "create", !.user = u,
                                            !.currency = c]]
    /\ result' = [result EXCEPT ![p] = res]
    /\ attempt' = [attempt EXCEPT ![p] = 1]
    /\ conflicts' = [conflicts EXCEPT ![p] = 0]
    /\ wrote' = [wrote EXCEPT ![p] = 0]
    /\ UNCHANGED <<snap, curRef>>

NewWallet(u, n, c) ==
    [balance |-> 0, version |-> 0, userId |-> u, name |-> n, currency |-> c,
     deletedAt |-> FALSE]

Min(S) == CHOOSE x \in S : \A y \in S : x <= y

\* prisma.wallet.create followed by auditService.log; the insert is committed
\* on its own, so an audit failure fails the call and leaves the wallet.
Create(p) ==
    /\ calls < MaxCalls
    /\ \E u \in Users, c \in CurrencyInputs, auditOk \in BOOLEAN :
         IF ~ValidCurrency(c)
         THEN /\ CreateEnds(p, u, c, "InvalidCurrency")
              /\ UNCHANGED <<wallets, used, auditLog>>
         ELSE IF TripleTaken(u, WalletName, c)
         THEN /\ CreateEnds(p, u, c, "AlreadyExists")
              /\ UNCHANGED <<wallets, used, auditLog>>
         ELSE /\ WalletIds \ used # {}
              /\ LET id == Min(WalletIds \ used)
                 IN /\ wallets' = [wallets EXCEPT ![id] = NewWallet(u, WalletName, c)]
                    /\ used' = used \cup {id}
                    /\ IF auditOk
                       THEN /\ auditLog' = Append(auditLog,
                                 [action |-> "CREATE", entityId |-> id])
                            /\ CreateEnds(p, u, c, "ok")
                       ELSE /\ CreateEnds(p, u, c, "AuditError")
                            /\ UNCHANGED auditLog
    /\ UNCHANGED <<ledger, lock, pendW, pendTx, applied>>

(***************************************************************************)
(* WalletsService.delete                                                   *)
(***************************************************************************)
DeleteCall(p) ==
    /\ calls < MaxCalls
    /\ \E id \in CallIds, u \in Users :
         StartCall(p, [NoOp EXCEPT !.kind = "delete", !.id = id, !.user = u], "dread")
    /\ UNCHANGED <<wallets, used, ledger, auditLog, lock, pendW, pendTx, applied>>

\* Variant: the acting user is not compared with the owner.
NotOwner_Never(row, userId) == FALSE

\* wallet.userId !== userId
NotOwner(row, userId) == row.userId # userId

\* findByIdOrFail and the ownership check
DeleteRead(p) ==
    /\ pc[p] = "dread"
    /\ LET row == FindUnique(op[p].id)
       IN IF ~IsRow(row) \/ NotOwner(row, op[p].user)
          THEN Fail(p, "NotFound")
          ELSE /\ snap' = [snap EXCEPT ![p] = <<row, NoRow>>]
               /\ Goto(p, "ddelete")
               /\ UNCHANGED <<lock, pendW, pendTx, curRef>>
    /\ UNCHANGED <<wallets, used, ledger, auditLog, attempt, conflicts,
                   wrote, applied, calls>>

\* ON DELETE CASCADE of transactions_walletId_fkey
Cascade(s, w) == SelectSeq(s, LAMBDA e : e.walletId # w)

\* prisma.wallet.delete({where: {id}}): no middleware rewrites it, so it is a
\* DELETE of the row (waiting for the row lock), cascading to its ledger rows;
\* then auditService.log.
DeleteRow(p) ==
    /\ pc[p] = "ddelete"
    /\ LockFree(p, op[p].id)
    /\ LET w == op[p].id
       IN IF ~Exists(w)
          THEN Fail(p, "RecordNotFound") /\ UNCHANGED <<wallets, ledger, auditLog>>
          ELSE /\ wallets' = [wallets EXCEPT ![w] = NoRow]
               /\ ledger' = Cascade(ledger, w)
               /\ \E auditOk \in BOOLEAN :
                    IF auditOk
                    THEN /\ auditLog' = Append(auditLog,
                              [action |-> "DELETE", entityId |-> w])
                         /\ Fail(p, "ok")
                    ELSE Fail(p, "AuditError") /\ UNCHANGED auditLog
    /\ UNCHANGED <<used, attempt, conflicts, wrote, applied, calls>>

(***************************************************************************)
(* WalletsService.fundWithPessimisticLock                                  *)
(***************************************************************************)
\* The columns of table wallets (initial migration).
WalletColumns == {"id", "name", "currency", "balance", "version", "userId",
                  "createdAt", "updatedAt", "deletedAt"}

\* SELECT * FROM wallets WHERE id = ... AND deleted_at IS NULL FOR UPDATE:
\* the columns the statement names.
LockQueryColumns == {"id", "deleted_at"}

\* The whole call, one transaction, is over within one step: it was made on
\* wallet id with amount a and ends with outcome res after committing n
\* ledger rows.
PessimisticEnds(p, id, a, res, n) ==
    /\ pc[p] = "idle"
    /\ calls' = calls + 1
    /\ pc' = pc
    /\ op' = [op EXCEPT ![p] = [NoOp EXCEPT !.kind = "pessimistic", !.id = id,
                                            !.amount = a]]
    /\ result' = [result EXCEPT ![p] = res]
    /\ attempt' = [attempt EXCEPT ![p] = 1]
    /\ conflicts' = [conflicts EXCEPT ![p] = 0]
    /\ wrote' = [wrote EXCEPT ![p] = n]
    /\ UNCHANGED <<snap, curRef>>

\* The raw query is rejected when it names a column the table does not have:
\* the callback throws and the transaction is rolled back before any row is
\* read, locked or written.  Otherwise the row is locked and read, updated
\* without a version check, the ledger row is inserted and the transaction
\* commits; the lock is held from the first statement to the commit.
PessimisticFund(p) ==
    /\ calls < MaxCalls
    /\ \E id \in CallIds, a \in Amounts, g \in GenRefs :
         IF ~(LockQueryColumns \subseteq WalletColumns)
         THEN /\ PessimisticEnds(p, id, a, "QueryError", 0)
              /\ UNCHANGED <<wallets, ledger>>
         ELSE /\ LockFree(p, id)
              /\ g \notin PendingRefsOfOthers(p)
              /\ LET row == FindUnique(id)
                 IN IF ~IsRow(row) \/ row.deletedAt
                    THEN /\ PessimisticEnds(p, id, a, "NotFound", 0)
                         /\ UNCHANGED <<wallets, ledger>>
                    ELSE IF RefTaken(p, g)
                    THEN /\ PessimisticEnds(p, id, a, "DuplicateReference", 0)
                         /\ UNCHANGED <<wallets, ledger>>
                    ELSE /\ wallets' = [wallets EXCEPT ![id] =
                              [row EXCEPT !.balance = row.balance + a,
                                          !.version = Increment(row.version)]]
                         /\ ledger' = Append(ledger,
                              Entry(id, "CREDIT", a, row.balance, row.balance + a,
                                    g, NoMeta, row.version))
                         /\ PessimisticEnds(p, id, a, "ok", 1)
    /\ UNCHANGED <<used, auditLog, lock, pendW, pendTx, applied>>

(***************************************************************************)
(* WalletsService.transfer                                                 *)
(***************************************************************************)
TransferCall(p) ==
    /\ calls < MaxCalls
    /\ \E from \in CallIds, to \in CallIds, a \in Amounts :
         StartCall(p, [NoOp EXCEPT !.kind = "transfer", !.id = from, !.to = to,
                                   !.amount = a], "tlock")
    /\ UNCHANGED <<wallets, used, ledger, auditLog, lock, pendW, pendTx, applied>>

\* Variant: the ids are locked in the order the caller gave them.
SortedIds_AsGiven(from, to) == <<from, to>>

\* [fromWalletId, toWalletId].sort()
SortedIds(from, to) == IF from <= to THEN <<from, to>> ELSE <<to, from>>

\* Variant: the FOR UPDATE query names the source wallet only.
ToLock_SourceOnly(p) ==
    {w \in {op[p].id} : Exists(w) /\ lock[w] # p}

\* Rows of the FOR UPDATE query that transaction p has still to lock.
ToLock(p) ==
    {w \in {op[p].id, op[p].to} : Exists(w) /\ lock[w] # p}

NextToLock(p) ==
    LET ids == SortedIds(op[p].id, op[p].to)
    IN IF ids[1] \in ToLock(p) THEN ids[1] ELSE ids[2]

\* SELECT id FROM wallets WHERE id IN (...) FOR UPDATE: the rows are locked
\* one after the other in id order, waiting for each lock held elsewhere.
TransferLock(p) ==
    /\ pc[p] = "tlock"
    /\ IF ToLock(p) = {}
       THEN Goto(p, "tread") /\ UNCHANGED lock
       ELSE LET w == NextToLock(p)
            IN /\ lock[w] = NoProc
               /\ lock' = [lock EXCEPT ![w] = p]
               /\ Goto(p, IF ToLock(p) = {w} THEN "tread" ELSE "tlock")
    /\ UNCHANGED <<wallets, used, ledger, auditLog, attempt, conflicts, snap,
                   pendW, pendTx, curRef, wrote, applied, calls>>

\* Variant: the currencies are not compared.
CurrencyMismatch_Never(fromWallet, toWallet) == FALSE

\* fromWallet.currency !== toWallet.currency
CurrencyMismatch(fromWallet, toWallet) == fromWallet.currency # toWallet.currency

\* Variant: the update of a transfer leaves the version as it is.
TransferUpdate_NoVersion(row, delta) == [row EXCEPT !.balance = @ + delta]

\* tx.wallet.update with balance: {decrement} or {increment} and
\* version: {increment: 1}; the row lock is already held.
TransferUpdate(row, delta) ==
    [row EXCEPT !.balance = @ + delta, !.version = Increment(@)]

\* The two findUnique reads, the checks, generateTransactionReference and the
\* debit update (balance: {decrement}, version: {increment: 1}).
TransferRead(p) ==
    /\ pc[p] = "tread"
    /\ LET fromWallet == FindUnique(op[p].id)
           toWallet == FindUnique(op[p].to)
       IN IF ~IsRow(fromWallet) \/ ~IsRow(toWallet)
          THEN Fail(p, "NotFound")
          ELSE IF CurrencyMismatch(fromWallet, toWallet)
          THEN Fail(p, "CurrencyMismatch")
          ELSE IF fromWallet.balance < op[p].amount
          THEN Fail(p, "InsufficientFunds")
          ELSE /\ \E g \in GenRefs : curRef' = [curRef EXCEPT ![p] = g]
               /\ snap' = [snap EXCEPT ![p] = <<fromWallet, toWallet>>]
               /\ pendW' = [pendW EXCEPT ![p][op[p].id] =
                    TransferUpdate(fromWallet, 0 - op[p].amount)]
               /\ Goto(p, "tout")
               /\ UNCHANGED <<pendTx, lock>>
    /\ UNCHANGED <<wallets, used, ledger, auditLog, attempt, conflicts,
                   wrote, applied, calls>>

OutRef(r) == <<r[1], "-OUT">>

InRef(r) == <<r[1], "-IN">>

\* The DEBIT ledger row (reference `${reference}-OUT`) and the credit update
\* (balance: {increment}, version: {increment: 1}).
TransferOut(p) ==
    /\ pc[p] = "tout"
    /\ OutRef(curRef[p]) \notin PendingRefsOfOthers(p)
    /\ IF RefTaken(p, OutRef(curRef[p]))
       THEN Fail(p, "DuplicateReference")
       ELSE LET to == TxFindUnique(p, op[p].to)
            IN /\ pendTx' = [pendTx EXCEPT ![p] = Append(@,
                    Entry(op[p].id, "DEBIT", op[p].amount, snap[p][1].balance,
                          snap[p][1].balance - op[p].amount, OutRef(curRef[p]),
                          [toWalletId |-> op[p].to], snap[p][1].version))]
               /\ pendW' = [pendW EXCEPT ![p][op[p].to] =
                    TransferUpdate(to, op[p].amount)]
               /\ Goto(p, "tin")
               /\ UNCHANGED <<lock, snap, curRef>>
    /\ UNCHANGED <<wallets, used, ledger, auditLog, attempt, conflicts,
                   wrote, applied, calls>>

\* The CREDIT ledger row (reference `${reference}-IN`).
TransferIn(p) ==
    /\ pc[p] = "tin"
    /\ InRef(curRef[p]) \notin PendingRefsOfOthers(p)
    /\ IF RefTaken(p, InRef(curRef[p]))
       THEN Fail(p, "DuplicateReference")
       ELSE /\ pendTx' = [pendTx EXCEPT ![p] = Append(@,
                 Entry(op[p].to, "CREDIT", op[p].amount, snap[p][2].balance,
                       snap[p][2].balance + op[p].amount, InRef(curRef[p]),
                       [fromWalletId |-> op[p].id],
                       TxFindUnique(p, op[p].to).version - 1))]
            /\ Goto(p, "tcommit")
            /\ UNCHANGED <<pendW, lock, snap, curRef>>
    /\ UNCHANGED <<wallets, used, ledger, auditLog, attempt, conflicts,
                   wrote, applied, calls>>

\* The final reads and the end of the $transaction callback.
TransferCommit(p) ==
    /\ pc[p] = "tcommit"
    /\ Committed(p)
    /\ UNCHANGED <<used, auditLog, attempt, conflicts, applied, calls>>

(***************************************************************************)
(* The system: requests of any kind, interleaved statement by statement    *)
(***************************************************************************)
Next ==
    \E p \in Procs :
        \/ Create(p)
        \/ FundCall(p)
        \/ WithdrawCall(p)
        \/ Read(p)
        \/ Update(p)
        \/ Backoff(p)
        \/ Insert(p)
        \/ Commit(p)
        \/ PessimisticFund(p)
        \/ TransferCall(p)
        \/ TransferLock(p)
        \/ TransferRead(p)
        \/ TransferOut(p)
        \/ TransferIn(p)
        \/ TransferCommit(p)
        \/ DeleteCall(p)
        \/ DeleteRead(p)
        \/ DeleteRow(p)

Spec == Init /\ [][Next]_vars

(***************************************************************************)
(* Contention on one wallet: the wallet is the one a first create call     *)
(* returns (balance 0, version 0); every request then makes one fund or    *)
(* withdraw call of one unit on it, all of them concurrently.              *)
(***************************************************************************)
InitFund ==
    /\ Idle
    /\ wallets = [w \in WalletIds |->
                    IF w = 1 THEN NewWallet("u1", WalletName, "NGN") ELSE NoRow]
    /\ used = {1}

FunderFund(p) ==
    result[p] = "none" /\ OptimisticCall(p, "fund", {1}, {1}, {NoRef})

FunderWithdraw(p) ==
    result[p] = "none" /\ OptimisticCall(p, "withdraw", {1}, {1}, {NoRef})

NextFund ==
    \E p \in Funders :
        \/ FunderFund(p)
        \/ FunderWithdraw(p)
        \/ Read(p)
        \/ Update(p)
        \/ Backoff(p)
        \/ Insert(p)
        \/ Commit(p)

SpecFund == InitFund /\ [][NextFund]_vars

(***************************************************************************)
(* The service over a database that already holds rows.  Table wallets has *)
(* a nullable "deletedAt" column, which fund and withdraw test; no method  *)
(* of the service sets it, so a marked row is one that another writer of   *)
(* the database left (an earlier release, an administrative statement).    *)
(* Wallet 1 was created and funded once; wallet 2 is a second wallet of    *)
(* the same or another currency, active or marked deleted.  The call that  *)
(* wrote the stored ledger row counts among the calls served.              *)
(***************************************************************************)
StoredRef == <<"C", "">>

StoredWallets ==
    {[w \in WalletIds |->
        IF w = 1
        THEN [NewWallet("u1", WalletName, "NGN") EXCEPT !.balance = 1, !.version = 1]
        ELSE [NewWallet("u2", WalletName, c) EXCEPT !.deletedAt = d]] :
     c \in Currencies, d \in BOOLEAN}

\* The ledger row of the one credit of wallet 1.
StoredLedger == <<Entry(1, "CREDIT", 1, 0, 1, StoredRef, NoMeta, 0)>>

InitStored ==
    /\ pc = [p \in AllProcs |-> "idle"]
    /\ op = [p \in AllProcs |-> NoOp]
    /\ attempt = [p \in AllProcs |-> 0]
    /\ conflicts = [p \in AllProcs |-> 0]
    /\ snap = [p \in AllProcs |-> <<NoRow, NoRow>>]
    /\ pendW = [p \in AllProcs |-> NoPendW]
    /\ pendTx = [p \in AllProcs |-> <<>>]
    /\ curRef = [p \in AllProcs |-> NoRef]
    /\ result = [p \in AllProcs |-> "none"]
    /\ wrote = [p \in AllProcs |-> 0]
    /\ applied = [r \in ClientRefs |-> 0]
    /\ lock = [w \in WalletIds |-> NoProc]
    /\ auditLog = <<>>
    /\ calls = Len(StoredLedger)
    /\ wallets \in StoredWallets
    /\ ledger = StoredLedger
    /\ used = WalletIds

SpecStored == InitStored /\ [][Next]_vars

(***************************************************************************)
(* Properties                                                              *)
(***************************************************************************)
CreditsOf(w) == getSummary(w).totalCredits

DebitsOf(w) == getSummary(w).totalDebits

EntriesOf(w) == {i \in DOMAIN ledger : ledger[i].walletId = w}

EntriesWithRef(r) == {i \in DOMAIN ledger : ledger[i].reference = r}

Deleted == {w \in used : ~IsRow(wallets[w])}

\* C1: in every reachable state, whatever calls of create, fund, withdraw,
\* fundWithPessimisticLock, transfer and delete are interleaved, the balance
\* of every wallet is >= 0.
C1_BalanceNeverNegative ==
    \A w \in WalletIds : IsRow(wallets[w]) => wallets[w].balance >= 0

\* C2: for every wallet and every interleaving of fund and withdraw calls on
\* it, retried and failed calls included, the balance equals the committed
\* CREDIT amounts minus the committed DEBIT amounts, as getSummary adds them up.
C2_BalanceIsLedgerSum ==
    \A w \in WalletIds :
        IsRow(wallets[w]) => wallets[w].balance = CreditsOf(w) - DebitsOf(w)

\* A wallet with committed credits and a committed debit, while one call has
\* been retried after a version conflict and another has given up.
C2_Witness ==
    /\ CreditsOf(1) >= 2
    /\ DebitsOf(1) >= 1
    /\ \E p \in Funders : result[p] = "ok" /\ conflicts[p] >= 1
    /\ \E p \in Funders : result[p] = "HighContention"

\* C3: every committed mutation of a wallet raises its version by exactly 1
\* and no two committed mutations of one wallet were computed from the same
\* version: the versions the committed mutations of a wallet were applied to
\* are 0, 1, ..., version - 1, each exactly once.
C3_VersionOrder ==
    \A w \in WalletIds :
        IsRow(wallets[w]) =>
            /\ {ledger[i].ver : i \in EntriesOf(w)} = 0..(wallets[w].version - 1)
            /\ \A i, j \in EntriesOf(w) : ledger[i].ver = ledger[j].ver => i = j

\* Two optimistic attempts read the same version of a wallet; one has
\* committed and the other has matched zero rows.
C3_Witness ==
    \E p, q \in Procs :
        /\ p # q
        /\ IsOptimistic(p) /\ result[p] = "ok"
        /\ IsOptimistic(q) /\ pc[q] = "backoff"
        /\ Exists(op[q].id)
        /\ \E i \in EntriesOf(op[q].id) : ledger[i].ver = snap[q][1].version

Started == {p \in Funders : result[p] # "none"}

Succeeded == {p \in Funders : result[p] = "ok"}

\* Every call made so far is a fund call and has returned.
OnlyFundsAllReturned ==
    \A p \in Funders : pc[p] = "idle" /\ op[p].kind \in {"none", "fund"}

C6_DuplicateDoesNotFail ==
    \A p \in Procs :
        (IsOptimistic(p) /\ op[p].ref \in ClientRefs)
        => result[p] # "DuplicateReference"

\* C7: no two ledger entries, of whatever wallets and operations, carry the
\* same reference; in particular the two entries of a transfer differ.
C7_ReferencesUnique ==
    \A i, j \in DOMAIN ledger :
        ledger[i].reference = ledger[j].reference => i = j

\* The two entries of one committed transfer are in the ledger.
C7_Witness ==
    \E i, j \in DOMAIN ledger : \E g \in GenRefs :
        /\ ledger[i].reference = OutRef(g)
        /\ ledger[j].reference = InRef(g)
        /\ ledger[i].type = "DEBIT"
        /\ ledger[j].type = "CREDIT"

\* A withdraw that reads an active wallet whose balance is below its amount.
WithdrawBeyondBalance(p) ==
    /\ pc[p] = "read"
    /\ op[p].kind = "withdraw"
    /\ Exists(op[p].id)
    /\ ~wallets[op[p].id].deletedAt
    /\ op[p].amount > wallets[op[p].id].balance

\* C8: withdraw of an amount above the current balance of an active wallet
\* fails with InsufficientFunds, leaves balance and version as they are and
\* appends no ledger entry.
C8_InsufficientFundsNoChange ==
    /\ [][\A p \in Procs :
            (WithdrawBeyondBalance(p) /\ pc'[p] # pc[p])
            => /\ pc'[p] = "idle"
               /\ result'[p] = "InsufficientFunds"
               /\ wallets' = wallets
               /\ ledger' = ledger]_vars
    /\ [](\A p \in Procs :
            (op[p].kind = "withdraw" /\ result[p] = "InsufficientFunds")
            => wrote[p] = 0)

\* A withdraw has failed with InsufficientFunds on a wallet that is still there.
C8_Witness ==
    \E p \in Procs :
        /\ op[p].kind = "withdraw"
        /\ result[p] = "InsufficientFunds"
        /\ \E w \in WalletIds : IsRow(wallets[w]) /\ wallets[w].balance = 0

C10_SucceedsAfterThreeConflicts ==
    \A p \in Funders :
        (/\ op[p].kind = "fund"
         /\ pc[p] = "idle"
         /\ conflicts[p] = 3
         /\ Exists(1) /\ ~wallets[1].deletedAt /\ lock[1] = NoProc)
        => result[p] = "ok"

\* The step by which fund/withdraw call p leaves position at.
Leaves(p, at) == IsOptimistic(p) /\ pc[p] = at /\ pc'[p] # at

\* The call of p ends in this step with error err, without a further attempt.
EndsWith(p, err) ==
    /\ pc'[p] = "idle"
    /\ result'[p] = err
    /\ attempt'[p] = attempt[p]

\* C11: a fund/withdraw call runs another attempt only after its guarded
\* update matched zero rows; an attempt that finds no wallet, a wallet marked
\* deleted, too small a balance or a taken reference ends the call at once
\* with that error.
C11_OnlyVersionConflictRetries ==
    [][\A p \in Procs :
        /\ (IsOptimistic(p) /\ pc[p] # "backoff" /\ pc'[p] = "backoff")
           => /\ pc[p] = "update"
              /\ ~VersionMatches(FindUnique(op[p].id), snap[p][1])
        /\ (Leaves(p, "read") /\ ~Exists(op[p].id)) => EndsWith(p, "NotFound")
        /\ (Leaves(p, "read") /\ Exists(op[p].id) /\ wallets[op[p].id].deletedAt)
           => EndsWith(p, "InvalidState")
        /\ (/\ Leaves(p, "read") /\ Exists(op[p].id)
            /\ ~wallets[op[p].id].deletedAt
            /\ op[p].kind = "withdraw"
            /\ wallets[op[p].id].balance < op[p].amount)
           => EndsWith(p, "InsufficientFunds")
        /\ (Leaves(p, "insert") /\ pc'[p] # "commit")
           => EndsWith(p, "DuplicateReference")]_vars

\* A withdraw lost one version check, tried again and was then refused for
\* want of funds: two attempts, one conflict.
C11_Witness ==
    \E p \in Procs :
        /\ op[p].kind = "withdraw"
        /\ result[p] = "InsufficientFunds"
        /\ conflicts[p] = 1
        /\ attempt[p] = 2

\* A step of transfer call p.
TransferStep(p) ==
    /\ op[p].kind = "transfer"
    /\ pc[p] \in {"tlock", "tread", "tout", "tin", "tcommit"}
    /\ pc'[p] # pc[p]

\* This step applies the whole transfer of p: the ledger gains a DEBIT of the
\* source then a CREDIT of the destination, the source loses the amount and
\* the destination gains it.
BothLegs(p) ==
    LET n == Len(ledger)
        from == op[p].id
        to == op[p].to
    IN /\ Len(ledger') = n + 2
       /\ SubSeq(ledger', 1, n) = ledger
       /\ ledger'[n + 1].type = "DEBIT" /\ ledger'[n + 1].walletId = from
       /\ ledger'[n + 2].type = "CREDIT" /\ ledger'[n + 2].walletId = to
       /\ from # to =>
            /\ wallets'[from].balance = wallets[from].balance - op[p].amount
            /\ wallets'[to].balance = wallets[to].balance + op[p].amount
            /\ wallets'[from].version = wallets[from].version + 1
            /\ wallets'[to].version = wallets[to].version + 1

\* C12: a transfer is all or nothing: the step that ends it successfully
\* debits the source, credits the destination and appends both ledger
\* entries at once; every other step of it, the failing ones included (missing
\* wallet, currency mismatch, insufficient funds, refused ledger append), leaves
\* every committed wallet row and the ledger as they were.
C12_TransferAllOrNothing ==
    [][\A p \in Procs :
        TransferStep(p) =>
            IF pc'[p] = "idle" /\ result'[p] = "ok"
            THEN BothLegs(p)
            ELSE wallets' = wallets /\ ledger' = ledger]_vars

\* A transfer failed on a ledger append, after its debit update, and a
\* transfer has committed.
C12_Witness ==
    \E p, q \in Procs :
        /\ op[p].kind = "transfer" /\ result[p] = "DuplicateReference"
        /\ op[q].kind = "transfer" /\ result[q] = "ok" /\ wrote[q] = 2

\* Transfer call p commits in this step, between two distinct active wallets.
TransferCommits(p) ==
    /\ TransferStep(p)
    /\ pc'[p] = "idle" /\ result'[p] = "ok"
    /\ op[p].id # op[p].to
    /\ ~wallets[op[p].id].deletedAt /\ ~wallets[op[p].to].deletedAt

\* C13: a successful transfer of amount a between two distinct active wallets
\* of one currency lowers the source balance by a, raises the destination
\* balance by a, and appends two ledger entries: a DEBIT of the source with
\* reference R-OUT and the destination in its metadata, a CREDIT of the
\* destination with reference R-IN and the source in its metadata.
C13_TransferEffect ==
    [][\A p \in Procs :
        TransferCommits(p) =>
            LET from == op[p].id
                to == op[p].to
                a == op[p].amount
                n == Len(ledger)
                debit == ledger'[n + 1]
                credit == ledger'[n + 2]
            IN /\ wallets[from].currency = wallets[to].currency
               /\ wallets'[from].balance = wallets[from].balance - a
               /\ wallets'[to].balance = wallets[to].balance + a
               /\ wallets'[from].balance + wallets'[to].balance
                    = wallets[from].balance + wallets[to].balance
               /\ Len(ledger') = n + 2
               /\ debit.walletId = from /\ debit.type = "DEBIT" /\ debit.amount = a
               /\ debit.metadata = [toWalletId |-> to]
               /\ credit.walletId = to /\ credit.type = "CREDIT" /\ credit.amount = a
               /\ credit.metadata = [fromWalletId |-> from]
               /\ \E g \in GenRefs : /\ debit.reference = <<g[1], "-OUT">>
                                     /\ credit.reference = <<g[1], "-IN">>]_vars

\* One unit has moved from wallet 1 to wallet 2, both active: the two ledger
\* entries of the transfer follow each other.
C13_Witness ==
    /\ IsRow(wallets[1]) /\ IsRow(wallets[2])
    /\ ~wallets[1].deletedAt /\ ~wallets[2].deletedAt
    /\ wallets[1].balance = 0 /\ wallets[2].balance = 1
    /\ \E i \in DOMAIN ledger :
        /\ i + 1 \in DOMAIN ledger
        /\ ledger[i].walletId = 1 /\ ledger[i].reference[2] = "-OUT"
        /\ ledger[i].amount = 1
        /\ ledger[i + 1].walletId = 2 /\ ledger[i + 1].reference[2] = "-IN"

\* Transfer call p is about to read two existing wallets of different
\* currencies.
ReadsMismatch(p) ==
    /\ op[p].kind = "transfer"
    /\ pc[p] = "tread" /\ pc'[p] # "tread"
    /\ Exists(op[p].id) /\ Exists(op[p].to)
    /\ wallets[op[p].id].currency # wallets[op[p].to].currency

\* C14: a transfer between two wallets of different currencies fails with
\* CurrencyMismatch, whatever its amount and the balances, and leaves both
\* wallets and the ledger unchanged.
C14_CurrencyMismatchNoChange ==
    /\ [][\A p \in Procs :
            ReadsMismatch(p) =>
                /\ pc'[p] = "idle"
                /\ result'[p] = "CurrencyMismatch"
                /\ wallets' = wallets
                /\ ledger' = ledger]_vars
    /\ [](\A p \in Procs :
            (op[p].kind = "transfer" /\ result[p] = "CurrencyMismatch")
            => wrote[p] = 0)

\* A transfer between the NGN wallet and a USD wallet has been refused.
C14_Witness ==
    \E p \in Procs :
        /\ op[p].kind = "transfer"
        /\ result[p] = "CurrencyMismatch"
        /\ IsRow(wallets[1]) /\ IsRow(wallets[2])
        /\ wallets[1].currency # wallets[2].currency
        /\ wallets[1].balance = 1

\* Transfer call p is about to read two existing wallets of which one is
\* marked deleted.
ReadsDeleted(p) ==
    /\ op[p].kind = "transfer"
    /\ pc[p] = "tread" /\ pc'[p] # "tread"
    /\ Exists(op[p].id) /\ Exists(op[p].to)
    /\ wallets[op[p].id].deletedAt \/ wallets[op[p].to].deletedAt

ReadsMarked(p) ==
    /\ Leaves(p, "read")
    /\ Exists(op[p].id)
    /\ wallets[op[p].id].deletedAt

\* fund/withdraw call p is about to read a wallet that is not there.
ReadsAbsent(p) == Leaves(p, "read") /\ ~Exists(op[p].id)

\* C17: fund and withdraw fail with InvalidState on a wallet marked deleted
\* and with NotFound on an absent one; either way no wallet row changes and no
\* ledger entry is appended.
C17_DeletedOrAbsentRejected ==
    /\ [][\A p \in Procs :
            /\ ReadsMarked(p)
               => /\ result'[p] = "InvalidState" /\ pc'[p] = "idle"
                  /\ wallets' = wallets /\ ledger' = ledger
            /\ ReadsAbsent(p)
               => /\ result'[p] = "NotFound" /\ pc'[p] = "idle"
                  /\ wallets' = wallets /\ ledger' = ledger]_vars
    /\ [](\A p \in Procs :
            (IsOptimistic(p) /\ result[p] \in {"InvalidState", "NotFound"})
            => wrote[p] = 0)

\* A fund call was refused on the marked wallet and a withdraw call on an id
\* of no wallet; the marked wallet is as stored.
C17_Witness ==
    \E p, q \in Procs :
        /\ op[p].kind = "fund" /\ result[p] = "InvalidState"
        /\ op[q].kind = "withdraw" /\ result[q] = "NotFound"
        /\ IsRow(wallets[2]) /\ wallets[2].deletedAt
        /\ wallets[2].balance = 0 /\ wallets[2].version = 0

(***************************************************************************)
(* The same system under fair scheduling: a call that has entered the      *)
(* service and whose next statement can run does run (the event loop and   *)
(* the database serve every pending statement).  Requests themselves may   *)
(* or may not arrive.                                                      *)
(***************************************************************************)
Continue(p) ==
    \/ Read(p)
    \/ Update(p)
    \/ Backoff(p)
    \/ Insert(p)
    \/ Commit(p)
    \/ TransferLock(p)
    \/ TransferRead(p)
    \/ TransferOut(p)
    \/ TransferIn(p)
    \/ TransferCommit(p)
    \/ DeleteRead(p)
    \/ DeleteRow(p)

SpecStoredFair ==
    InitStored /\ [][Next]_vars /\ \A p \in Procs : WF_vars(Continue(p))

\* Transfer call p is inside its FOR UPDATE query, waiting for a row that
\* call q has locked.
WaitsFor(p, q) ==
    /\ op[p].kind = "transfer"
    /\ pc[p] = "tlock"
    /\ ToLock(p) # {}
    /\ lock[NextToLock(p)] = q

InTransfer(p) == op[p].kind = "transfer" /\ pc[p] # "idle"

WasDeleted(w) == w \in used /\ ~Exists(w)

\* C18: once a delete of a wallet has committed, no fund, withdraw,
\* fundWithPessimisticLock or transfer commits a change to it, calls that read
\* it before the delete and update after it included: the wallet stays as
\* the delete left it and no ledger entry of it is committed.
C18_DeletedIsTerminal ==
    [][\A w \in WalletIds :
        WasDeleted(w) =>
            /\ wallets'[w] = wallets[w]
            /\ \A i \in DOMAIN ledger' : ledger'[i].walletId # w]_vars

\* A withdraw read wallet 1 while it was active, the delete of wallet 1
\* committed, and the withdraw's guarded update then matched no row.
C18_Witness ==
    \E p, q \in Procs :
        /\ op[q].kind = "delete" /\ result[q] = "ok"
        /\ WasDeleted(1)
        /\ op[p].kind = "withdraw" /\ op[p].id = 1
        /\ pc[p] = "backoff"
        /\ IsRow(snap[p][1]) /\ ~snap[p][1].deletedAt

\* The delete call of p succeeds in this step.
DeleteSucceeds(p) ==
    /\ op[p].kind = "delete"
    /\ pc[p] = "ddelete" /\ pc'[p] = "idle"
    /\ result'[p] = "ok"

\* C19: a delete by the owner sets the wallet's delete marker and changes
\* nothing else: the row is still there with the same balance and version,
\* and the ledger is as it was.
C19_DeleteSetsMarkerOnly ==
    [][\A p \in Procs :
        DeleteSucceeds(p) =>
            LET w == op[p].id
            IN /\ IsRow(wallets'[w])
               /\ wallets'[w] = [wallets[w] EXCEPT !.deletedAt = TRUE]
               /\ ledger' = ledger]_vars

\* C20: the ledger is append-only: every step leaves the committed entries
\* in place and unchanged, and at most adds entries after them, whatever the
\* operation, delete of the entries' wallet included.
C20_LedgerAppendOnly ==
    [][/\ Len(ledger') >= Len(ledger)
       /\ SubSeq(ledger', 1, Len(ledger)) = ledger]_vars

\* Delete call p is about to load an existing wallet that belongs to
\* another user.
DeleteByStranger(p) ==
    /\ op[p].kind = "delete"
    /\ pc[p] = "dread" /\ pc'[p] # "dread"
    /\ Exists(op[p].id)
    /\ wallets[op[p].id].userId # op[p].user

\* C21: delete called by a user who does not own the wallet fails with
\* NotFound and leaves the wallet (marker, balance, version) and the ledger
\* as they were.
C21_StrangerCannotDelete ==
    [][\A p \in Procs :
        DeleteByStranger(p) =>
            /\ pc'[p] = "idle"
            /\ result'[p] = "NotFound"
            /\ wallets' = wallets
            /\ ledger' = ledger]_vars

\* User u2 asked to delete wallet 1 of user u1 and was refused; the wallet and
\* its ledger row are as stored.
C21_Witness ==
    \E p \in Procs :
        /\ op[p].kind = "delete" /\ result[p] = "NotFound"
        /\ calls = Len(StoredLedger) + 1
        /\ IsRow(wallets[1]) /\ wallets[1].userId = "u1"
        /\ wallets[1].balance = 1 /\ wallets[1].version = 1
        /\ ledger = StoredLedger

\* The (owner, name, currency) of a wallet row.
Triple(row) == <<row.userId, row.name, row.currency>>

\* Process p makes a create call in this step (a call is one step; the step
\* is p's when it changes what p last called or was answered).
CreateStep(p) ==
    /\ calls' = calls + 1
    /\ op'[p].kind = "create"
    /\ op'[p] # op[p] \/ result'[p] # result[p]

\* C22: create yields a wallet with balance 0 and version 0, and fails with
\* AlreadyExists, creating nothing, when a wallet with the same (owner, name,
\* currency) exists; so no two wallets ever share (owner, name, currency),
\* also when two such creates race.
C22_CreateUniqueTriple ==
    /\ [](\A v, w \in WalletIds :
            (IsRow(wallets[v]) /\ IsRow(wallets[w])
             /\ Triple(wallets[v]) = Triple(wallets[w])) => v = w)
    /\ [][\A p \in Procs :
            CreateStep(p) =>
                /\ \A w \in WalletIds :
                     (~IsRow(wallets[w]) /\ IsRow(wallets'[w]))
                     => /\ wallets'[w].balance = 0
                        /\ wallets'[w].version = 0
                        /\ ~wallets'[w].deletedAt
                        /\ \A v \in WalletIds :
                             IsRow(wallets[v])
                             => Triple(wallets[v]) # Triple(wallets'[w])
                /\ \A w \in WalletIds : IsRow(wallets[w]) => wallets'[w] = wallets[w]
                /\ result'[p] = "AlreadyExists" => wallets' = wallets]_vars

\* Two create calls for the same owner and currency were made: one wallet
\* exists, the other call was refused.
C22_Witness ==
    \E p, q \in Procs :
        /\ p # q
        /\ op[p].kind = "create" /\ result[p] = "ok"
        /\ op[q].kind = "create" /\ result[q] = "AlreadyExists"
        /\ IsRow(wallets[1]) /\ ~IsRow(wallets[2])
        /\ wallets[1].balance = 0 /\ wallets[1].version = 0

\* Process p is answered InvalidAmount in this step.
RejectsAmount(p) ==
    /\ calls' = calls + 1
    /\ op'[p].kind \in {"fund", "withdraw"}
    /\ result'[p] = "InvalidAmount"
    /\ op'[p] # op[p] \/ result'[p] # result[p]

\* C23: fund and withdraw called with an amount of zero or less fail with
\* InvalidAmount and change no balance or version and append no ledger
\* entry: no such call gets past its entry, and the step that rejects it
\* leaves the wallets and the ledger as they were.
C23_InvalidAmountRejected ==
    /\ [](\A p \in Procs :
            (IsOptimistic(p) /\ pc[p] # "idle") => op[p].amount > 0)
    /\ [](\A p \in Procs :
            (IsOptimistic(p) /\ result[p] = "InvalidAmount") => wrote[p] = 0)
    /\ [][\A p \in Procs :
            RejectsAmount(p) =>
                /\ pc'[p] = "idle"
                /\ wallets' = wallets
                /\ ledger' = ledger]_vars

\* A withdraw call was rejected for its amount; the stored wallet and ledger
\* are untouched.
C23_Witness ==
    \E p \in Procs :
        /\ op[p].kind = "withdraw" /\ result[p] = "InvalidAmount"
        /\ IsRow(wallets[1]) /\ wallets[1].balance = 1 /\ wallets[1].version = 1
        /\ ledger = StoredLedger

\* C24: a failure of the audit write does not fail the mutation it describes:
\* the step that ends a fund or withdraw call after its ledger append, the
\* audit write having failed or not, commits the wallet update and its ledger
\* entry.
C24_AuditFailureKeepsMutation ==
    [][\A p \in Procs :
        (IsOptimistic(p) /\ pc[p] = "commit" /\ pc'[p] = "idle")
        => /\ Len(ledger') = Len(ledger) + 1
           /\ wallets'[op[p].id] = pendW[p][op[p].id]]_vars

\* balance-after = balance-before + amount for a CREDIT, - amount for a DEBIT
Arithmetic(e) ==
    IF e.type = "CREDIT"
    THEN e.balanceAfter = e.balanceBefore + e.amount
    ELSE e.balanceAfter = e.balanceBefore - e.amount

\* C25: every ledger entry written by fund, withdraw, fundWithPessimisticLock
\* or transfer has balance-after = balance-before + amount when it is a CREDIT
\* and balance-before - amount when it is a DEBIT.
C25_EntryArithmetic ==
    /\ \A i \in DOMAIN ledger : Arithmetic(ledger[i])
    /\ \A p \in Procs : \A i \in DOMAIN pendTx[p] : Arithmetic(pendTx[p][i])

\* The ledger holds a CREDIT written by fund, a DEBIT and a CREDIT written by
\* a transfer of one unit.
C25_Witness ==
    \E i, j, k \in DOMAIN ledger :
        /\ ledger[i].type = "CREDIT" /\ ledger[i].reference[2] = ""
        /\ ledger[i].reference # StoredRef
        /\ ledger[j].type = "DEBIT" /\ ledger[j].reference[2] = "-OUT"
        /\ ledger[j].amount = 1
        /\ ledger[k].type = "CREDIT" /\ ledger[k].reference[2] = "-IN"

\* C26: every ledger entry has an amount strictly greater than 0, whichever
\* operation wrote it and whatever amount that operation was called with.
C26_EntryAmountPositive ==
    \A i \in DOMAIN ledger : ledger[i].amount > 0

\* C27: the wallet update and its ledger entry commit together or not at
\* all.  In every step the committed version of a wallet row grows by exactly
\* the number of ledger rows committed for that wallet in the same step, a
\* committed row changes only with such a row, and a fund or withdraw that
\* returns the updated wallet has added exactly one ledger row.
C27_UpdateAndEntryTogether ==
    [][/\ \A w \in WalletIds :
            (IsRow(wallets[w]) /\ IsRow(wallets'[w]))
            => /\ CountFor(ledger', w) - CountFor(ledger, w)
                    = wallets'[w].version - wallets[w].version
               /\ (wallets'[w] # wallets[w]
                    => CountFor(ledger', w) > CountFor(ledger, w))
       /\ \A p \in Procs :
            (IsOptimistic(p) /\ pc[p] = "commit" /\ result'[p] = "ok")
            => /\ Len(ledger') = Len(ledger) + 1
               /\ ledger'[Len(ledger')].walletId = op[p].id]_vars

\* A fund was rolled back after its wallet update and its ledger row were
\* written, another one committed both, and only the second left a ledger row.
C27_Witness ==
    \E p, q \in Procs :
        /\ IsOptimistic(p) /\ result[p] = "ok" /\ wrote[p] = 1
        /\ IsOptimistic(q) /\ result[q] = "AuditError" /\ wrote[q] = 0
        /\ Exists(1)
        /\ CountFor(ledger, 1) = 1
        /\ wallets[1].version = 1

\* Process p makes a fundWithPessimisticLock call on a wallet that is active
\* when the call is made.
PessimisticOnActive(p) ==
    /\ calls' = calls + 1
    /\ op'[p].kind = "pessimistic"
    /\ op'[p] # op[p] \/ result'[p] # result[p]
    /\ op'[p].id \in WalletIds
    /\ IsRow(wallets[op'[p].id])
    /\ ~wallets[op'[p].id].deletedAt

\* C28: a fundWithPessimisticLock call on an active wallet, whatever other
\* calls it is interleaved with, commits exactly one credit on the balance
\* the wallet has at that moment and does not fail with ConcurrentModification
\* or HighContention.
C28_PessimisticFundCommitsOneCredit ==
    [][\A p \in Procs :
        PessimisticOnActive(p) =>
            LET w == op'[p].id
            IN /\ result'[p] \notin {"ConcurrentModification", "HighContention"}
               /\ result'[p] = "ok"
               /\ Len(ledger') = Len(ledger) + 1
               /\ ledger'[Len(ledger')].walletId = w
               /\ ledger'[Len(ledger')].type = "CREDIT"
               /\ ledger'[Len(ledger')].balanceBefore = wallets[w].balance
               /\ wallets'[w].balance = ledger'[Len(ledger')].balanceAfter
               /\ wallets'[w].version = wallets[w].version + 1]_vars

\* The committed ledger rows of wallet w, in commit order.
RowsOf(w) == SelectSeq(ledger, LAMBDA e : e.walletId = w)

\* The rows of wallet w form a chain that starts at balance 0 and ends at the
\* wallet's balance.
Chain(w) ==
    LET rows == RowsOf(w)
    IN rows # <<>> =>
         /\ rows[1].balanceBefore = 0
         /\ \A i \in 2..Len(rows) : rows[i].balanceBefore = rows[i - 1].balanceAfter
         /\ wallets[w].balance = rows[Len(rows)].balanceAfter

\* C29: for every wallet, its ledger entries in commit order form a chain:
\* the first has balance-before 0, each later one has the balance-after of its
\* predecessor as balance-before, and the wallet's balance is the
\* balance-after of the latest, also after a transfer from a wallet to itself.
C29_LedgerChain ==
    \A w \in WalletIds : Exists(w) => Chain(w)

\* What a fund or withdraw call that met a version conflict can end with.
AfterConflict ==
    {"ok", "HighContention", "NotFound", "InvalidState", "InsufficientFunds",
     "DuplicateReference", "AuditError"}

\* C30: the version-conflict error never reaches a caller of fund or
\* withdraw: no call ends with ConcurrentModification, and a call that met
\* one or more conflicts and is over has returned the updated wallet from a
\* later attempt or failed with HighContention or another non-conflict error.
C30_ConflictNeverReachesCaller ==
    \A p \in AllProcs :
        /\ result[p] # "ConcurrentModification"
        /\ (IsOptimistic(p) /\ pc[p] = "idle" /\ conflicts[p] >= 1)
           => /\ result[p] \in AfterConflict
              /\ (result[p] = "ok") => (wrote[p] = 1 /\ conflicts[p] < MAX_RETRIES)
              /\ (result[p] = "HighContention") => conflicts[p] = MAX_RETRIES

\* One call returned the updated wallet after a conflict, another one gave up
\* with HighContention.
C30_Witness ==
    \E p, q \in Funders :
        /\ IsOptimistic(p) /\ conflicts[p] >= 1 /\ result[p] = "ok"
        /\ IsOptimistic(q) /\ conflicts[q] >= 1 /\ result[q] = "HighContention"

\* C31: every attempt re-reads the wallet and runs the checks on the row just
\* read.  A withdraw attempt, the first or a later one, that reads a balance
\* smaller than its amount ends the call with InsufficientFunds and changes
\* nothing; the row an attempt goes on with is the committed row at its read;
\* and the balance a call commits is computed from the balance committed
\* just before, never from one read by an earlier attempt.
C31_RetryReadsAfresh ==
    [][\A p \in AllProcs :
        /\ (/\ Leaves(p, "read") /\ op[p].kind = "withdraw"
            /\ Exists(op[p].id) /\ ~wallets[op[p].id].deletedAt
            /\ wallets[op[p].id].balance < op[p].amount)
           => /\ EndsWith(p, "InsufficientFunds")
              /\ wallets' = wallets
              /\ ledger' = ledger
        /\ (Leaves(p, "read") /\ pc'[p] = "update")
           => snap'[p][1] = wallets[op[p].id]
        /\ (IsOptimistic(p) /\ pc[p] = "commit" /\ result'[p] = "ok")
           => /\ wallets'[op[p].id].balance =
                    BalanceAfter(op[p].kind, wallets[op[p].id].balance, op[p].amount)
              /\ wallets'[op[p].id].version = wallets[op[p].id].version + 1]_vars

\* A withdraw passed the sufficiency check, lost the version race to another
\* withdraw, read the emptied wallet on its next attempt and was refused.
C31_Witness ==
    \E p \in AllProcs :
        /\ op[p].kind = "withdraw" /\ result[p] = "InsufficientFunds"
        /\ attempt[p] >= 2 /\ conflicts[p] >= 1 /\ wrote[p] = 0
        /\ wallets[1].balance = 0
        /\ DebitsOf(1) >= 1

\* Transfer p is past its FOR UPDATE query and its transaction is open.
PastLocking(p) ==
    op[p].kind = "transfer" /\ pc[p] \in {"tread", "tout", "tin", "tcommit"}

\* C32: in every transfer the locks on both wallet rows are held before
\* either balance is read and stay held until the transaction ends, so the
\* committed rows are still the rows the transfer read for as long as it runs.
C32_TransferHoldsBothLocks ==
    \A p \in Procs :
        PastLocking(p) =>
            /\ \A w \in {op[p].id, op[p].to} : Exists(w) => lock[w] = p
            /\ pc[p] # "tread" =>
                 /\ wallets[op[p].id] = snap[p][1]
                 /\ wallets[op[p].to] = snap[p][2]

\* A transfer between two wallets has read both rows and holds both locks
\* while a fund or withdraw call on one of them waits at its update.
C32_Witness ==
    \E p, q \in Procs :
        /\ op[p].kind = "transfer" /\ pc[p] = "tin"
        /\ op[p].id # op[p].to
        /\ lock[op[p].id] = p /\ lock[op[p].to] = p
        /\ IsOptimistic(q) /\ pc[q] = "update"
        /\ op[q].id \in {op[p].id, op[p].to}

\* The audit UPDATE events of wallet w.
UpdateEventsOf(w) ==
    {i \in DOMAIN auditLog :
        auditLog[i].action = "UPDATE" /\ auditLog[i].entityId = w}

\* The ledger rows of wallet w that fund and withdraw wrote (transfer rows
\* carry the other wallet in their metadata).
MutationsOf(w) ==
    {i \in DOMAIN ledger : ledger[i].walletId = w /\ ledger[i].metadata = NoMeta}

\* Audit event a describes ledger row e.
Describes(a, e) ==
    /\ a.action = "UPDATE"
    /\ a.entityId = e.walletId
    /\ a.reference = e.reference
    /\ a.amount = e.amount
    /\ a.balanceBefore = e.balanceBefore
    /\ a.balanceAfter = e.balanceAfter

\* Process p's fund or withdraw call returns the updated wallet in this step.
ReturnsUpdated(p) ==
    IsOptimistic(p) /\ pc[p] # "idle" /\ pc'[p] = "idle" /\ result'[p] = "ok"

\* C33: a fund or withdraw call that returns successfully has emitted exactly
\* one audit UPDATE event, with the balance-before, balance-after and
\* reference of the ledger entry it wrote; a step that does not end such a
\* call with success (a conflict, a refusal, a retry) emits none; so for every
\* wallet the audit UPDATE events are as many as its committed fund/withdraw
\* ledger entries.
C33_OneAuditEventPerMutation ==
    [][/\ \A p \in AllProcs :
            ReturnsUpdated(p)
            => /\ Len(auditLog') = Len(auditLog) + 1
               /\ Len(ledger') = Len(ledger) + 1
               /\ Describes(auditLog'[Len(auditLog')], ledger'[Len(ledger')])
               /\ auditLog'[Len(auditLog')].entityId = op[p].id
       /\ (\A p \in AllProcs : ~ReturnsUpdated(p))
          => \A w \in WalletIds : UpdateEventsOf(w)' = UpdateEventsOf(w)
       /\ \A w \in WalletIds :
            Exists(w)' =>
                Cardinality(UpdateEventsOf(w))' = Cardinality(MutationsOf(w))']_vars

\* Two calls returned the updated wallet and a third one gave up after its
\* conflicts; the audit log holds two UPDATE events.
C33_Witness ==
    /\ \E p \in AllProcs :
         IsOptimistic(p) /\ result[p] = "HighContention"
    /\ Cardinality(UpdateEventsOf(1)) >= 2
    /\ Cardinality(UpdateEventsOf(1)) = Cardinality(MutationsOf(1))

\* An active wallet holds the triple (u, WalletName, c).
ActiveHolds(u, c) ==
    \E w \in WalletIds : /\ IsRow(wallets[w])
                         /\ ~wallets[w].deletedAt
                         /\ Triple(wallets[w]) = <<u, WalletName, c>>

Waiting(p) == IsOptimistic(p) /\ pc[p] = "backoff"

\* C35: backoff waits occur only between attempts and double each time: a
\* wait follows the i-th attempt only if a further attempt follows it, it
\* lasts 10 ms x 2^i, the call holds no lock and has no open transaction
\* while it waits, and a call that is over after k attempts has waited k-1
\* times (once per conflict).
C35_BackoffOnlyBetweenAttempts ==
    \A p \in AllProcs :
        /\ Waiting(p) =>
             /\ attempt[p] < MAX_RETRIES
             /\ BackoffDelay(attempt[p]) \in {20, 40}
             /\ \A w \in WalletIds : lock[w] # p
             /\ pendW[p] = NoPendW /\ pendTx[p] = <<>>
        /\ (IsOptimistic(p) /\ pc[p] = "idle" /\ result[p] \notin {"none", "pending"})
           => conflicts[p] = attempt[p] - 1

\* C36: for every wallet that has not been deleted, the version equals the
\* number of committed ledger entries of that wallet, each leg of a transfer
\* counting once.
C36_VersionCountsEntries ==
    \A w \in WalletIds :
        Exists(w) => wallets[w].version = getSummary(w).transactionCount

\* A wallet was funded and was then both source and destination of transfers:
\* version 3 after a fund, a debit leg and a credit leg.
C36_Witness ==
    \E w \in WalletIds :
        /\ Exists(w)
        /\ wallets[w].version = 3
        /\ getSummary(w).transactionCount = 3
        /\ \E i, j \in EntriesOf(w) :
             /\ ledger[i].type = "DEBIT" /\ ledger[i].metadata # NoMeta
             /\ ledger[j].type = "CREDIT" /\ ledger[j].metadata # NoMeta

\* C37: no update is lost when optimistic fund/withdraw calls are mixed with
\* transfers and fundWithPessimisticLock calls: every wallet's balance is its
\* committed CREDIT amounts minus its committed DEBIT amounts, and an
\* optimistic attempt whose guarded update went through works on the row as
\* committed, every write that was committed since its read having changed
\* the version.
C37_NoLostUpdateWhenMixed ==
    /\ \A w \in WalletIds :
         Exists(w) => wallets[w].balance =
                        getSummary(w).totalCredits - getSummary(w).totalDebits
    /\ \A p \in Procs :
         (IsOptimistic(p) /\ pc[p] \in {"insert", "commit"})
         => /\ snap[p][1] = wallets[op[p].id]
            /\ lock[op[p].id] = p

\* A fund or withdraw read the wallet, a transfer on that wallet committed
\* before its guarded update, and the call succeeded on its second attempt.
C37_Witness ==
    \E p, q \in Procs :
        /\ IsOptimistic(p) /\ result[p] = "ok" /\ conflicts[p] = 1
        /\ op[q].kind = "transfer" /\ result[q] = "ok"
        /\ Len(ledger) = 4
        /\ wallets[1].version = 3

\* The wallet that call p debits exists and its committed balance is exactly
\* the amount of the call.
DebitsWholeBalance(p) ==
    /\ op[p].kind \in {"withdraw", "transfer"}
    /\ Exists(op[p].id)
    /\ wallets[op[p].id].balance = op[p].amount

\* C38: the sufficiency check is non-strict.  A withdraw or a transfer whose
\* amount is exactly the balance of the debited wallet passes the check, and
\* when it commits it leaves that balance at exactly 0; a call is refused with
\* InsufficientFunds only when its amount is strictly greater than the
\* balance.
C38_WholeBalanceCanBeDebited ==
    [][\A p \in Procs :
        /\ (/\ DebitsWholeBalance(p) /\ Leaves(p, "read")
            /\ ~wallets[op[p].id].deletedAt)
           => pc'[p] = "update"
        /\ (/\ DebitsWholeBalance(p) /\ pc[p] = "tread" /\ pc'[p] # "tread"
            /\ Exists(op[p].to)
            /\ wallets[op[p].to].currency = wallets[op[p].id].currency)
           => pc'[p] = "tout"
        /\ (/\ DebitsWholeBalance(p) /\ pc[p] \in {"commit", "tcommit"}
            /\ pc'[p] = "idle" /\ result'[p] = "ok")
           => wallets'[op[p].id].balance = 0
        /\ (/\ op[p].kind \in {"withdraw", "transfer"}
            /\ pc[p] # "idle" /\ pc'[p] = "idle"
            /\ result'[p] = "InsufficientFunds")
           => /\ Exists(op[p].id)
              /\ wallets[op[p].id].balance < op[p].amount]_vars

\* No call is under way: every process is between two calls.
Quiet == \A q \in AllProcs : pc[q] = "idle"

\* C39: the optimistic and the pessimistic fund entry points have the same
\* effect: with no concurrent activity, fundWithPessimisticLock on an active
\* wallet with a positive amount leaves the balance and version that fund
\* leaves and appends the ledger entry that fund appends (CREDIT, the amount,
\* the balance before, the balance after).
C39_PessimisticFundEqualsFund ==
    [][\A p \in Procs :
        (PessimisticOnActive(p) /\ Quiet /\ op'[p].amount > 0) =>
            LET w == op'[p].id
                a == op'[p].amount
                after == BalanceAfter("fund", wallets[w].balance, a)
                e == ledger'[Len(ledger')]
            IN /\ wallets'[w] = [wallets[w] EXCEPT !.balance = after,
                                                  !.version = Increment(@)]
               /\ Len(ledger') = Len(ledger) + 1
               /\ e.walletId = w
               /\ e.type = EntryType("fund")
               /\ e.amount = a
               /\ e.balanceBefore = wallets[w].balance
               /\ e.balanceAfter = after]_vars

====
